---- MODULE Spec2Model ----
(***************************************************************************)
(* Model of the PostgreSQL game store (class PostgreSQL implements         *)
(* IDatabase): the games relation, the asynchronous saveGame, the          *)
(* callback chain of cleanSaves, the purge sweep and the rollback delete.  *)
(* Every query is one atomic step of the backend; the callbacks of one     *)
(* method are separate steps, so other queries interleave between them.    *)
(***************************************************************************)
EXTENDS Bags, FiniteSets, Integers, Sequences, TLC

\* ---------------------------------------------------------------- bounds
MaxSaves == 3           \* calls of saveGame in one behaviour
MaxInflight == 2        \* saveGame queries issued and not yet answered
MaxRollback == 2        \* largest rollbackCount passed to deleteGameNbrSaves
TickDays == 11          \* days that pass in the one step of the clock

\* ------------------------------------------------------- program constants
DEFAULT_DAYS == 10

\* ---------------------------------------------------------- value domains
\* JavaScript / SQL values are tagged, so that a number, null, undefined, NaN
\* and a string can be told apart; a string is the sequence of its characters
Num(n) == [t |-> "number", v |-> n]
null == [t |-> "null", v |-> 0]
undefined == [t |-> "undefined", v |-> 0]
NaN == [t |-> "NaN", v |-> 0]
Str(s) == [t |-> "string", s |-> s]
noString == [t |-> "undefined", s |-> <<>>]

GameIds == {"g1", "g2"}
\* what game.toJSON() and game.getPlayers().length give at a call of saveGame
GameStates == {[game |-> "a", players |-> 2], [game |-> "b", players |-> 3]}
Digits == <<"0", "1", "2", "3", "4", "5", "6", "7", "8", "9">>

\* values of maxGameDays / process.env.MAX_GAME_DAYS: undefined or a string
\* process.env.MAX_GAME_DAYS: the variable is not set
MAX_GAME_DAYS == noString
MaxGameDaysArgs ==
  {noString, Str(<<>>), Str(<<"5">>), Str(<<"1", "1">>), Str(<<"x">>), Str(<<"5", ".", "5">>),
   Str(<<"1", "1", ".", "5">>)}

VARIABLES games, lastSaveId, saveQ, cs, now, calls, game_results, outcome

vars == <<games, lastSaveId, saveQ, cs, now, calls, game_results, outcome>>

\* ------------------------------------------------------------ the relation
RowsOf(T, game_id) == {r \in T : r.game_id = game_id}

SaveIdsOf(T, game_id) == {r.save_id : r \in RowsOf(T, game_id)}

SetMax(S) == CHOOSE x \in S : \A y \in S : y <= x

\* SELECT distinct save_id FROM games WHERE game_id = $1
getSaveIds(game_id) == SaveIdsOf(games, game_id)

\* SELECT MAX(save_id) FROM games WHERE game_id = $1: one row, NULL when the
\* game has no row
SelectMaxSaveId(T, game_id) ==
  IF RowsOf(T, game_id) = {} THEN null ELSE Num(SetMax(SaveIdsOf(T, game_id)))

\* SQL comparison of a column with a parameter: with NULL it selects no row
SqlLess(a, b) == b.t = "number" /\ a < b.v

\* getGames: the per-game maximum save_id among the running rows, joined back
\* to games on (game_id, save_id); the result as a set (ORDER BY not modelled)
RunningMax(T) ==
  {[game_id |-> g, save_id |-> SetMax({r.save_id : r \in {x \in RowsOf(T, g) : x.status = "running"}})] :
     g \in {r.game_id : r \in {x \in T : x.status = "running"}}}

getGames ==
  {r.game_id : r \in {x \in games : \E a \in RunningMax(games) :
                         x.game_id = a.game_id /\ x.save_id = a.save_id}}

\* JSON.parse of a stored document: the object the text denotes
JSONparse(text) == [parsed |-> text]

\* cb(err, game) of getGame
GameNotFound == [err |-> "Game not found", game |-> undefined]

GameFound(game) == [err |-> "undefined", game |-> game]

getGame_lowest(game_id) ==
  IF RowsOf(games, game_id) = {} THEN GameNotFound
  ELSE GameFound(JSONparse((CHOOSE r \in RowsOf(games, game_id) :
                    \A o \in RowsOf(games, game_id) : r.save_id <= o.save_id).game))

\* getGame: ORDER BY save_id DESC LIMIT 1, the answer of cb
getGame(game_id) ==
  IF RowsOf(games, game_id) = {} THEN GameNotFound
  ELSE GameFound(JSONparse((CHOOSE r \in RowsOf(games, game_id) :
                    \A o \in RowsOf(games, game_id) : o.save_id <= r.save_id).game))

\* getPlayerCount: SELECT players WHERE save_id = 0 AND game_id = $1 LIMIT 1
getPlayerCount(game_id) ==
  IF \E r \in RowsOf(games, game_id) : r.save_id = 0
  THEN (CHOOSE r \in RowsOf(games, game_id) : r.save_id = 0).players
  ELSE undefined

Upsert_insertOnly(T, game_id, save_id, gameJSON, players, t) ==
  T \cup {[game_id |-> game_id, save_id |-> save_id, game |-> gameJSON,
           players |-> players, status |-> "running", created_time |-> t]}

Upsert_keepFirst(T, game_id, save_id, gameJSON, players, t) ==
  IF \E r \in T : r.game_id = game_id /\ r.save_id = save_id THEN T
  ELSE T \cup {[game_id |-> game_id, save_id |-> save_id, game |-> gameJSON,
                players |-> players, status |-> "running", created_time |-> t]}

Upsert_overwritePlayers(T, game_id, save_id, gameJSON, players, t) ==
  IF \E r \in T : r.game_id = game_id /\ r.save_id = save_id
  THEN {IF r.game_id = game_id /\ r.save_id = save_id
        THEN [r EXCEPT !.game = gameJSON, !.players = players] ELSE r : r \in T}
  ELSE T \cup {[game_id |-> game_id, save_id |-> save_id, game |-> gameJSON,
                players |-> players, status |-> "running", created_time |-> t]}

Upsert_resetStatus(T, game_id, save_id, gameJSON, players, t) ==
  IF \E r \in T : r.game_id = game_id /\ r.save_id = save_id
  THEN {IF r.game_id = game_id /\ r.save_id = save_id
        THEN [r EXCEPT !.game = gameJSON, !.status = "running"] ELSE r : r \in T}
  ELSE T \cup {[game_id |-> game_id, save_id |-> save_id, game |-> gameJSON,
                players |-> players, status |-> "running", created_time |-> t]}

\* INSERT ... ON CONFLICT (game_id, save_id) DO UPDATE SET game = $3
Upsert(T, game_id, save_id, gameJSON, players, t) ==
  IF \E r \in T : r.game_id = game_id /\ r.save_id = save_id
  THEN {IF r.game_id = game_id /\ r.save_id = save_id
        THEN [r EXCEPT !.game = gameJSON] ELSE r : r \in T}
  ELSE T \cup {[game_id |-> game_id, save_id |-> save_id, game |-> gameJSON,
                players |-> players, status |-> "running", created_time |-> t]}

TrimRows_withOrigin(T, game_id, save_id) ==
  {r \in T : r.game_id = game_id /\ SqlLess(r.save_id, save_id)}

\* DELETE FROM games WHERE game_id = $1 AND save_id < $2 AND save_id > 0
TrimRows(T, game_id, save_id) ==
  {r \in T : r.game_id = game_id /\ SqlLess(r.save_id, save_id) /\ r.save_id > 0}

MarkFinished_all(T, game_id) == {[r EXCEPT !.status = "finished"] : r \in T}

\* UPDATE games SET status = 'finished' WHERE game_id = $1
MarkFinished(T, game_id) ==
  {IF r.game_id = game_id THEN [r EXCEPT !.status = "finished"] ELSE r : r \in T}

PurgeRows_runningOnly(T, t, days) ==
  {r \in T : r.created_time < t - days /\ r.status = "running"}

\* DELETE FROM games WHERE created_time < now() - interval '1 day' * $1
PurgeRows(T, t, days) == {r \in T : r.created_time < t - days}

RecentRows_ascending(T, game_id, rollbackCount) ==
  {r \in RowsOf(T, game_id) :
     Cardinality({o \in RowsOf(T, game_id) : o.save_id < r.save_id}) < rollbackCount}

\* the rows of SELECT ... WHERE game_id = $1 ORDER BY save_id DESC LIMIT $2
RecentRows(T, game_id, rollbackCount) ==
  {r \in RowsOf(T, game_id) :
     Cardinality({o \in RowsOf(T, game_id) : o.save_id > r.save_id}) < rollbackCount}

\* ------------------------------------------------- parseInt / isInteger
IsDigit(c) == \E i \in 1..10 : Digits[i] = c

DigitVal(c) == (CHOOSE i \in 1..10 : Digits[i] = c) - 1

IsSpace(c) == c = " "

RECURSIVE SkipSpaces(_)
SkipSpaces(s) == IF s # <<>> /\ IsSpace(Head(s)) THEN SkipSpaces(Tail(s)) ELSE s

RECURSIVE ParseDigits(_, _)
ParseDigits(s, acc) ==
  IF s # <<>> /\ IsDigit(Head(s)) THEN ParseDigits(Tail(s), 10 * acc + DigitVal(Head(s)))
  ELSE acc

\* parseInt(s): leading blanks, an optional sign, then the longest run of
\* decimal digits; NaN when there is no digit
parseInt(str) ==
  LET s == SkipSpaces(str)
      neg == s # <<>> /\ Head(s) = "-"
      body == IF s # <<>> /\ Head(s) \in {"-", "+"} THEN Tail(s) ELSE s
  IN IF body = <<>> \/ ~IsDigit(Head(body)) THEN NaN
     ELSE IF neg THEN Num(0 - ParseDigits(body, 0)) ELSE Num(ParseDigits(body, 0))

NumberIsInteger(x) == x.t = "number"

\* const envDays = parseInt(maxGameDays || ''); isInteger ? envDays : 10
PurgeDays(maxGameDays) ==
  LET envDays == parseInt(IF maxGameDays.t = "undefined" THEN <<>> ELSE maxGameDays.s)
  IN IF NumberIsInteger(envDays) THEN envDays.v ELSE DEFAULT_DAYS

\* the default parameter value: maxGameDays = process.env.MAX_GAME_DAYS
DefaultArg(maxGameDays) ==
  IF maxGameDays.t = "undefined" THEN MAX_GAME_DAYS ELSE maxGameDays

throwIf_swallow(err) == FALSE

\* throwIf(err, condition): throws exactly when err is set
throwIf(err) == err

\* ------------------------------------------------- what the caller gets
\* outcome is how the operation that has just ended was left to its caller:
\* op the operation, err whether its query failed, how its end
\* ("fulfilled" / "rejected" for a promise, "thrown" for an exception,
\* "warned" for console.warn and a plain return, "returned" otherwise).
NoOutcome == [op |-> "none", err |-> FALSE, how |-> "none"]

Outcome(op, err, how) == [op |-> op, err |-> err, how |-> how]

\* saveGame: .then returns, and .catch logs and returns as well, so the
\* promise is fulfilled either way
saveGameSettles(err) == IF err THEN "fulfilled" ELSE "fulfilled"

\* the callbacks of deleteGameNbrSaves and purgeUnfinishedGames
WarnIf(err) == IF err THEN "warned" ELSE "returned"

\* a callback that passes err to throwIf, or throws it itself
ThrownIf(err) == IF throwIf(err) THEN "thrown" ELSE "returned"

\* ------------------------------------------------------------------- Init
CsIdle == [pc |-> "idle", game_id |-> "", save_id |-> undefined, err |-> "none"]

Init ==
  /\ games = {}
  /\ lastSaveId = [g \in GameIds |-> 0]
  /\ saveQ = EmptyBag
  /\ cs = CsIdle
  /\ now = 0
  /\ calls = 0
  /\ game_results = {}
  /\ outcome = NoOutcome

\* ---------------------------------------------------------------- saveGame
\* saveGame up to the query being issued: the arguments are taken now
saveGame(game_id, gameJSON, players) ==
  /\ calls < MaxSaves
  /\ calls' = calls + 1
  /\ BagCardinality(saveQ) < MaxInflight
  /\ saveQ' = saveQ (+) SetToBag({[id |-> game_id, lastSaveId |-> lastSaveId[game_id],
                                   game |-> gameJSON, players |-> players]})
  /\ UNCHANGED <<games, lastSaveId, cs, now, game_results>>

NextSaveId_always(n, err) == n + 1

\* what the promise chain leaves in game.lastSaveId
NextSaveId(n, err) == IF err THEN n ELSE n + 1

\* the query is answered: .then on success, .catch on failure
saveGameDone(q, err) ==
  /\ BagIn(q, saveQ)
  /\ saveQ' = saveQ (-) SetToBag({q})
  /\ games' = IF err THEN games
              ELSE Upsert(games, q.id, q.lastSaveId, q.game, q.players, now)
  /\ lastSaveId' = [lastSaveId EXCEPT ![q.id] = NextSaveId(@, err)]
  /\ UNCHANGED <<cs, now, calls, game_results>>

\* -------------------------------------------------------------- cleanSaves
\* One call of cleanSaves is followed at a time.  cs is that call: pc its
\* position in the callback chain, game_id its argument, save_id the result of
\* getMaxSaveId, err the condition of the query that answered with an error.
\* A call that threw keeps no save_id.
CsNext(pc, game_id, save_id, err) ==
  [pc |-> pc, game_id |-> game_id,
   save_id |-> IF pc = "failed" THEN undefined ELSE save_id, err |-> err]

\* cleanSaves up to the callback of getMaxSaveId
cleanSaves(game_id, err) ==
  /\ cs.pc \in {"idle", "done", "failed"}
  /\ LET save_id == IF err THEN undefined ELSE SelectMaxSaveId(games, game_id)
     IN cs' = IF throwIf(err) THEN CsNext("failed", game_id, save_id, "cleanSaves0")
              ELSE IF save_id = undefined
                   THEN CsNext("failed", game_id, save_id, "saveId is undefined")
                   ELSE CsNext("trim", game_id, save_id, IF err THEN "cleanSaves0" ELSE "none")
  /\ UNCHANGED <<games, lastSaveId, saveQ, now, calls, game_results>>

\* the callback of the trimming DELETE
cleanSavesTrim(err) ==
  /\ cs.pc = "trim"
  /\ games' = IF err THEN games ELSE games \ TrimRows(games, cs.game_id, cs.save_id)
  /\ cs' = CsNext(IF throwIf(err) THEN "failed" ELSE "mark", cs.game_id, cs.save_id,
                  IF err THEN "cleanSaves1" ELSE cs.err)
  /\ UNCHANGED <<lastSaveId, saveQ, now, calls, game_results>>

cleanSavesMark_skipPurge(err2) ==
  /\ cs.pc = "mark"
  /\ games' = IF err2 THEN games ELSE MarkFinished(games, cs.game_id)
  /\ cs' = CsNext(IF throwIf(err2) THEN "failed" ELSE "done", cs.game_id, cs.save_id,
                  IF err2 THEN "cleanSaves2" ELSE cs.err)
  /\ UNCHANGED <<lastSaveId, saveQ, now, calls, game_results>>

\* the callback of the UPDATE; on success purgeUnfinishedGames() is called
cleanSavesMark(err2) ==
  /\ cs.pc = "mark"
  /\ games' = IF err2 THEN games ELSE MarkFinished(games, cs.game_id)
  /\ cs' = CsNext(IF throwIf(err2) THEN "failed" ELSE "purge", cs.game_id, cs.save_id,
                  IF err2 THEN "cleanSaves2" ELSE cs.err)
  /\ UNCHANGED <<lastSaveId, saveQ, now, calls, game_results>>

\* the purge query issued by cleanSaves is answered
cleanSavesPurge(err) ==
  /\ cs.pc = "purge"
  /\ games' = IF err THEN games
              ELSE games \ PurgeRows(games, now, PurgeDays(DefaultArg(noString)))
  /\ cs' = CsNext("done", cs.game_id, cs.save_id, cs.err)
  /\ UNCHANGED <<lastSaveId, saveQ, now, calls, game_results>>

\* ---------------------------------------------------- purgeUnfinishedGames
purgeUnfinishedGames(maxGameDays, err) ==
  /\ games' = IF err THEN games
              ELSE games \ PurgeRows(games, now, PurgeDays(DefaultArg(maxGameDays)))
  /\ UNCHANGED <<lastSaveId, saveQ, cs, now, calls, game_results>>

\* ------------------------------------------------------ deleteGameNbrSaves
deleteGameNbrSaves(game_id, rollbackCount, err) ==
  /\ games' = IF rollbackCount > 0 /\ ~err
              THEN games \ RecentRows(games, game_id, rollbackCount)
              ELSE games
  /\ UNCHANGED <<lastSaveId, saveQ, cs, now, calls, game_results>>

\* --------------------------------------------------------- saveGameResults
\* the arguments of saveGameResults: players, generations, gameOptions, scores
Results ==
  {[players |-> 2, generations |-> 14, gameOptions |-> [clonedGamedId |-> "undefined"],
    scores |-> <<50, 42>>],
   [players |-> 2, generations |-> 9, gameOptions |-> [clonedGamedId |-> "g0"],
    scores |-> <<42, 50>>]}

\* JSON.stringify of the scores: the entries in their order
JSONstringify(scores) == [json |-> scores]

ResultKeyTaken_never(T, game_id) == FALSE

\* PRIMARY KEY (game_id) of game_results
ResultKeyTaken(T, game_id) == \E r \in T : r.game_id = game_id

\* the err of the INSERT callback: the backend fails, or the key is taken
ResultErr(game_id, backendErr) == backendErr \/ ResultKeyTaken(game_results, game_id)

saveGameResults(game_id, players, generations, gameOptions, scores, backendErr) ==
  /\ game_results' =
       IF ResultErr(game_id, backendErr) THEN game_results
       ELSE game_results \cup
              {[game_id |-> game_id, seed_game_id |-> gameOptions.clonedGamedId,
                players |-> players, generations |-> generations,
                game_options |-> gameOptions, scores |-> JSONstringify(scores)]}
  /\ UNCHANGED <<games, lastSaveId, saveQ, cs, now, calls>>

\* ------------------------------------------------------------------ clock
Tick ==
  /\ now < TickDays
  /\ now' = now + TickDays
  /\ UNCHANGED <<games, lastSaveId, saveQ, cs, calls, game_results>>

\* The operations on the games of G, saving the states of S.  With alone, a
\* call of cleanSaves runs alone: between its first and its last callback only
\* its own callbacks are taken.  With observed, outcome follows the operations;
\* without, it is left as it is.
Quiet == cs.pc \in {"idle", "done", "failed"}

Report(observed, o) == outcome' = IF observed THEN o ELSE outcome

NextOf(G, S, alone, observed) ==
  \/ \E g \in G, st \in S :
       /\ (alone => Quiet) /\ saveGame(g, st.game, st.players)
       /\ Report(observed, NoOutcome)
  \/ \E q \in BagToSet(saveQ), err \in BOOLEAN :
       /\ (alone => Quiet) /\ saveGameDone(q, err)
       /\ Report(observed, Outcome("saveGame", err, saveGameSettles(err)))
  \/ \E g \in G, err \in BOOLEAN :
       /\ cleanSaves(g, err)
       /\ Report(observed, IF cs'.pc = "failed" THEN Outcome("cleanSaves", err, "thrown")
                           ELSE NoOutcome)
  \/ \E err \in BOOLEAN :
       /\ cleanSavesTrim(err)
       /\ Report(observed, IF err THEN Outcome("cleanSaves", err, ThrownIf(err)) ELSE NoOutcome)
  \/ \E err \in BOOLEAN :
       /\ cleanSavesMark(err)
       /\ Report(observed, IF err THEN Outcome("cleanSaves", err, ThrownIf(err)) ELSE NoOutcome)
  \/ \E err \in BOOLEAN :
       /\ cleanSavesPurge(err)
       /\ Report(observed, Outcome("purgeUnfinishedGames", err, WarnIf(err)))
  \/ \E a \in MaxGameDaysArgs, err \in BOOLEAN :
       /\ (alone => Quiet) /\ purgeUnfinishedGames(a, err)
       /\ Report(observed, Outcome("purgeUnfinishedGames", err, WarnIf(err)))
  \/ \E g \in G, k \in 0..MaxRollback, err \in BOOLEAN :
       /\ (alone => Quiet) /\ deleteGameNbrSaves(g, k, err)
       /\ Report(observed, Outcome("deleteGameNbrSaves", k > 0 /\ err, WarnIf(k > 0 /\ err)))
  \/ (alone => Quiet) /\ Tick /\ Report(observed, NoOutcome)

\* two games whose state does not change between saves, all interleavings
Next == NextOf(GameIds, {[game |-> "a", players |-> 2]}, FALSE, FALSE)

Spec == Init /\ [][Next]_vars

\* the same with cleanSaves running alone
NextSeq == NextOf(GameIds, {[game |-> "a", players |-> 2]}, TRUE, FALSE)

SpecSeq == Init /\ [][NextSeq]_vars

\* one game whose state changes between saves, all interleavings
NextDoc == NextOf({"g1"}, GameStates, FALSE, FALSE)

SpecDoc == Init /\ [][NextDoc]_vars

\* one game and its result record, the outcome of every operation observed
NextErr ==
  \/ NextOf({"g1"}, {[game |-> "a", players |-> 2]}, FALSE, TRUE)
  \/ \E r \in Results, backendErr \in BOOLEAN :
       /\ saveGameResults("g1", r.players, r.generations, r.gameOptions, r.scores, backendErr)
       /\ Report(TRUE, Outcome("saveGameResults", ResultErr("g1", backendErr),
                               ThrownIf(ResultErr("g1", backendErr))))

SpecErr == Init /\ [][NextErr]_vars

\* ================================================================ claims
\* the step in which the last query of the followed cleanSaves call is answered
CleanSavesCompletes == cs.pc = "purge" /\ cs'.pc = "done"

\* the step in which the trimming DELETE of cleanSaves has been executed
CleanSavesTrimmed == cs.pc = "trim" /\ cs'.pc = "mark"

AllFinished(T, game_id) == \A r \in RowsOf(T, game_id) : r.status = "finished"

\* C1: when cleanSaves(g) of a game with a snapshot has run to completion
\* (trim, mark finished, the purge it triggers), the versions of g are exactly
\* 0 and the highest version found when it started, and all its rows are
\* finished.
C1_CleanSavesLeavesOriginAndLatest ==
  [][(CleanSavesCompletes /\ cs.save_id.t = "number")
       => /\ SaveIdsOf(games', cs.game_id) = {0, cs.save_id.v}
          /\ AllFinished(games', cs.game_id)]_vars

\* C2: getGames never returns a game whose highest-version row is finished.
C2_ActiveGamesHaveRunningLatest ==
  \A g \in getGames :
    \A r \in RowsOf(games, g) :
      r.save_id = SetMax(SaveIdsOf(games, g)) => r.status # "finished"

\* C3 (as stated): every game that has been saved successfully has a version 0.
C3_OriginAlwaysExists ==
  \A g \in GameIds : lastSaveId[g] > 0 => 0 \in SaveIdsOf(games, g)

OriginRemoved(g) == 0 \in SaveIdsOf(games, g) /\ 0 \notin SaveIdsOf(games', g)

OriginRow(g) == CHOOSE r \in RowsOf(games, g) : r.save_id = 0

\* C3 (amended): version 0 of a game is removed only by deleteGameNbrSaves
\* with rollbackCount at least the number of rows of the game, or by a purge
\* (called directly or by cleanSaves) when it is older than the threshold;
\* no save, trim or status update removes it.
C3_OriginRemovedOnlyByRollbackOrPurge ==
  [][\A g \in GameIds : OriginRemoved(g) =>
       \/ \E k \in 1..MaxRollback :
            /\ k >= Cardinality(RowsOf(games, g))
            /\ deleteGameNbrSaves(g, k, FALSE)
       \/ \E a \in MaxGameDaysArgs :
            /\ purgeUnfinishedGames(a, FALSE)
            /\ OriginRow(g).created_time < now - PurgeDays(DefaultArg(a))
       \/ /\ cleanSavesPurge(FALSE)
          /\ OriginRow(g).created_time < now - DEFAULT_DAYS]_vars

C3_Witness ==
  /\ now = TickDays
  /\ lastSaveId["g1"] = 2
  /\ SaveIdsOf(games, "g1") = {1}

\* C4: cleanSaves for a game without any row fails at once: nothing further is
\* issued and the table is as before.
C4_CleanSavesWithoutRowsFails ==
  [][\A g \in GameIds : (RowsOf(games, g) = {} /\ cleanSaves(g, FALSE))
       => cs'.pc = "failed" /\ games' = games]_vars

RowMarked(game_id) ==
  \E r \in RowsOf(games, game_id), n \in RowsOf(games', game_id) :
    r.save_id = n.save_id /\ r.status = "running" /\ n.status = "finished"

\* C5: when the lookup or the trimming DELETE of a cleanSaves call fails, that
\* call marks no row finished and does not call the purge.
C5_FailedTrimStopsCleanSaves ==
  /\ [](cs.err \in {"cleanSaves0", "cleanSaves1"} => cs.pc = "failed")
  /\ [][(cs.pc = "failed" \/ cs'.pc = "failed") => \A g \in GameIds : ~RowMarked(g)]_vars

C5_Witness ==
  /\ cs.pc = "failed"
  /\ cs.err = "cleanSaves1"
  /\ \E r \in RowsOf(games, cs.game_id) : r.status = "running" /\ r.save_id = 1
  /\ SaveIdsOf(games, cs.game_id) = {0, 1, 2}

\* C6: the trimming DELETE of cleanSaves never removes version 0 nor the row
\* that is the highest version of the game when the DELETE is executed.
C6_TrimKeepsOriginAndLatest ==
  [][CleanSavesTrimmed =>
       \A r \in RowsOf(games, cs.game_id) :
         r \notin games' => /\ r.save_id # 0
                            /\ r.save_id # SetMax(SaveIdsOf(games, cs.game_id))]_vars

\* C7: deleteGameNbrSaves(g, k) with 0 < k <= number of rows of g removes
\* exactly the k rows of g with the highest save_id and nothing else, version 0
\* only when g had at most k rows; with k <= 0 it changes nothing.
C7_RollbackRemovesMostRecent ==
  [][\A g \in GameIds, k \in 0..MaxRollback :
       /\ (k > 0 /\ k <= Cardinality(RowsOf(games, g)) /\ deleteGameNbrSaves(g, k, FALSE))
            => LET gone == games \ games'
               IN /\ games' \subseteq games
                  /\ Cardinality(gone) = k
                  /\ \A r \in gone : r.game_id = g
                  /\ \A r \in gone, o \in RowsOf(games', g) : o.save_id < r.save_id
                  /\ (\E r \in gone : r.save_id = 0) => Cardinality(RowsOf(games, g)) <= k
       /\ (k <= 0 /\ \E err \in BOOLEAN : deleteGameNbrSaves(g, k, err))
            => games' = games]_vars

C7_Witness ==
  /\ now = 0
  /\ cs.pc = "idle"
  /\ saveQ = EmptyBag
  /\ calls = 3
  /\ lastSaveId["g1"] = 3
  /\ SaveIdsOf(games, "g1") = {0}

\* the purge has removed the rows older than days days and only those
PurgedByAge(days) ==
  /\ games' \subseteq games
  /\ \A r \in games : /\ r.created_time < now - days => r \notin games'
                      /\ r.created_time >= now - days => r \in games'

UniqueKey ==
  \A r1 \in games, r2 \in games :
    (r1.game_id = r2.game_id /\ r1.save_id = r2.save_id) => r1 = r2

\* C9: (game_id, save_id) is unique in the table; a successful save leaves
\* exactly one row for its pair, holding its document, and a save of what the
\* row already holds leaves the table as it was.
C9_SaveIsIdempotentUpsert ==
  /\ []UniqueKey
  /\ [][\A q \in BagToSet(saveQ) : saveGameDone(q, FALSE) =>
          LET hit == {r \in games' : r.game_id = q.id /\ r.save_id = q.lastSaveId}
          IN /\ Cardinality(hit) = 1
             /\ \A r \in hit : r.game = q.game
             /\ (\E r \in games : r.game_id = q.id /\ r.save_id = q.lastSaveId
                                    /\ r.game = q.game)
                  => games' = games]_vars

C9_Witness ==
  /\ now = 0
  /\ cs.pc = "idle"
  /\ saveQ = EmptyBag
  /\ calls = 3
  /\ lastSaveId["g1"] = 3
  /\ SaveIdsOf(games, "g1") = {0, 2}
  /\ \E r \in RowsOf(games, "g1") : r.save_id = 0 /\ r.game = "a" /\ r.players = 2

\* C10: a save that fails leaves game.lastSaveId as it was; lastSaveId changes
\* only by one, and only when a save of that game succeeds.
C10_FailedSaveKeepsLastSaveId ==
  [][/\ \A q \in BagToSet(saveQ) : saveGameDone(q, TRUE) => lastSaveId' = lastSaveId
     /\ \A g \in GameIds : lastSaveId'[g] # lastSaveId[g] =>
          /\ lastSaveId'[g] = lastSaveId[g] + 1
          /\ \E q \in BagToSet(saveQ) : q.id = g /\ saveGameDone(q, FALSE)]_vars

C10_Witness ==
  /\ calls = 1
  /\ saveQ = EmptyBag
  /\ games = {}
  /\ \A g \in GameIds : lastSaveId[g] = 0
\* the ways in which a failure reaches the caller or surfaces as an error
Reported == {"rejected", "thrown"}

\* C11: a write operation whose query failed ends as a failure towards its
\* caller: saveGame, deleteGameNbrSaves, purgeUnfinishedGames, cleanSaves and
\* saveGameResults never end as a success after a backend error.
C11_WriteFailuresAreReported ==
  (outcome.op \in {"saveGame", "deleteGameNbrSaves", "purgeUnfinishedGames",
                   "cleanSaves", "saveGameResults"} /\ outcome.err)
    => outcome.how \in Reported

\* C12: when two saves with different documents for the same (game_id,
\* save_id) overlap, each one that commits leaves exactly one row for the pair,
\* holding its own document: the row ends with the document committed last.
C12_LastCommittedSaveWins ==
  [][\A q \in BagToSet(saveQ) :
       (/\ saveGameDone(q, FALSE)
        /\ \E r \in games : r.game_id = q.id /\ r.save_id = q.lastSaveId /\ r.game # q.game)
         => LET hit == {r \in games' : r.game_id = q.id /\ r.save_id = q.lastSaveId}
            IN /\ Cardinality(hit) = 1
               /\ \A r \in hit : r.game = q.game]_vars

C12_Witness ==
  /\ saveQ = EmptyBag
  /\ calls = 2
  /\ lastSaveId["g1"] = 2
  /\ \E r \in games : games = {r} /\ r.save_id = 0 /\ r.game = "b" /\ r.players = 2

\* C13: getGame answers with the document of the row of the game with the
\* highest save_id in the table, whatever saves, rollbacks and cleanups came
\* before, and with "Game not found" exactly when the game has no row.
C13_GetGameReturnsHighestVersion ==
  \A g \in GameIds :
    /\ (getGame(g).err = "Game not found") <=> (getSaveIds(g) = {})
    /\ getSaveIds(g) # {} =>
         \E r \in games : /\ r.game_id = g
                          /\ r.save_id = SetMax(getSaveIds(g))
                          /\ getGame(g) = GameFound(JSONparse(r.game))

C13_Witness ==
  /\ cs.pc = "done"
  /\ getSaveIds("g1") = {0, 2}
  /\ \E r \in games : r.save_id = 0 /\ r.game = "a"
  /\ \E r \in games : r.save_id = 2 /\ r.game = "b"
  /\ getGame("g1").game = JSONparse("b")

UniqueResultKey(T) == \A x, y \in T : x.game_id = y.game_id => x = y

\* C14: saveGameResults for a game_id that already has a record fails, the
\* failure reaches the caller (it is thrown), and the record stays as it was;
\* game_results never holds two records of one game_id.
C14_DuplicateResultFailsAndKeepsRecord ==
  [][/\ UniqueResultKey(game_results')
     /\ \A r \in Results, backendErr \in BOOLEAN :
          (/\ \E x \in game_results : x.game_id = "g1"
           /\ saveGameResults("g1", r.players, r.generations, r.gameOptions, r.scores, backendErr)
           /\ outcome'.op = "saveGameResults")
            => /\ game_results' = game_results
               /\ outcome'.err
               /\ outcome'.how \in Reported]_vars

C14_Witness ==
  /\ \E x \in game_results : game_results = {x} /\ x.game_id = "g1" /\ x.generations = 14
  /\ outcome = Outcome("saveGameResults", TRUE, "thrown")

\* C15: within one call of cleanSaves the UPDATE to finished is issued only
\* by the callback of a trimming DELETE that answered without error, the purge
\* is issued only by the callback of an UPDATE that answered without error, and
\* every call whose UPDATE answered without error issues the purge.
C15_CleanSavesStepsInOrder ==
  [][/\ (cs'.pc = "mark" /\ cs # cs') =>
          /\ cs.pc = "trim" /\ cs'.err = "none"
          /\ games' = games \ TrimRows(games, cs.game_id, cs.save_id)
     /\ (cs'.pc = "purge" /\ cs # cs') =>
          /\ cs.pc = "mark" /\ cs'.err = "none"
          /\ AllFinished(games', cs.game_id)
     /\ (cs.pc = "mark" /\ cs # cs' /\ cs'.err = "none") => cs'.pc = "purge"
     /\ (cs'.pc = "done" /\ cs # cs') => cs.pc = "purge"]_vars

C15_Witness ==
  /\ cs.pc = "purge"
  /\ cs.save_id = Num(2)
  /\ SaveIdsOf(games, cs.game_id) = {0, 2}
  /\ AllFinished(games, cs.game_id)

\* C16: a successful save of a (game_id, save_id) that already has a row
\* changes only the document of that row: its key, its players, its status and
\* its created_time are those of the first save, every other row is untouched,
\* and getPlayerCount answers as before.
C16_ResaveOverwritesOnlyDocument ==
  [][\A q \in BagToSet(saveQ) :
       (/\ saveGameDone(q, FALSE)
        /\ \E r \in games : r.game_id = q.id /\ r.save_id = q.lastSaveId)
         => /\ \A r \in games :
                 IF r.game_id = q.id /\ r.save_id = q.lastSaveId
                 THEN \E n \in games' : /\ n.game_id = r.game_id /\ n.save_id = r.save_id
                                        /\ n.players = r.players /\ n.status = r.status
                                        /\ n.created_time = r.created_time
                                        /\ n.game = q.game
                 ELSE r \in games'
            /\ Cardinality(games') = Cardinality(games)
            /\ getPlayerCount(q.id)' = getPlayerCount(q.id)]_vars

C16_Witness ==
  /\ now = TickDays
  /\ lastSaveId["g1"] = 2
  /\ \E r \in games : /\ games = {r} /\ r.save_id = 0 /\ r.game = "b" /\ r.players = 2
                      /\ r.status = "finished" /\ r.created_time = 0
  /\ getPlayerCount("g1") = 2

\* C17: the versions written by the saveGame calls of one game are strictly
\* increasing: a save that succeeds writes a version no earlier call wrote, and
\* leaves game.lastSaveId one more than the version it wrote.
C17_SavesWriteIncreasingVersions ==
  [][\A q \in BagToSet(saveQ) : saveGameDone(q, FALSE) =>
          /\ ~\E r \in games : r.game_id = q.id /\ r.save_id = q.lastSaveId
          /\ lastSaveId'[q.id] = q.lastSaveId + 1]_vars

\* a string that is an integer: decimal digits and nothing else
IsIntegerText(a) ==
  /\ a.t = "string"
  /\ a.s # <<>>
  /\ \A i \in 1..Len(a.s) : IsDigit(a.s[i])

\* C18: the purge deletes by a threshold of 10 days when maxGameDays is absent
\* or is not an integer (empty, not numeric, digits followed by other
\* characters or by a fractional part), and by the configured number of days
\* exactly when maxGameDays is an integer.
C18_ThresholdIsIntegerOrDefault ==
  [][\A a \in MaxGameDaysArgs :
       (purgeUnfinishedGames(a, FALSE) /\ outcome'.op = "purgeUnfinishedGames")
         => PurgedByAge(IF IsIntegerText(a) THEN ParseDigits(a.s, 0) ELSE DEFAULT_DAYS)]_vars

\* the rows of game h that a step removes are all older than days
OnlyOldRowsRemoved(h, days) ==
  /\ RowsOf(games', h) \subseteq RowsOf(games, h)
  /\ \A r \in RowsOf(games, h) \ RowsOf(games', h) : r.created_time < now - days

\* C19: a save of g, deleteGameNbrSaves(g, k) and the trimming DELETE and the
\* UPDATE of cleanSaves(g) leave the rows of every other game h as they are;
\* the rows of h change in no other way than by an operation on h or by a
\* purge, which only deletes rows older than its threshold.
C19_OtherGamesUntouched ==
  [][\A h \in GameIds :
       /\ \A q \in BagToSet(saveQ) :
            (saveGameDone(q, FALSE) /\ q.id # h) => RowsOf(games', h) = RowsOf(games, h)
       /\ \A g \in GameIds \ {h}, k \in 0..MaxRollback :
            deleteGameNbrSaves(g, k, FALSE) => RowsOf(games', h) = RowsOf(games, h)
       /\ (cs.pc \in {"trim", "mark"} /\ cs' # cs /\ cs.game_id # h)
            => RowsOf(games', h) = RowsOf(games, h)
       /\ RowsOf(games', h) # RowsOf(games, h) =>
            \/ \E q \in BagToSet(saveQ) : q.id = h /\ saveGameDone(q, FALSE)
            \/ \E k \in 1..MaxRollback : deleteGameNbrSaves(h, k, FALSE)
            \/ cs.pc \in {"trim", "mark"} /\ cs' # cs /\ cs.game_id = h
            \/ /\ cs.pc = "purge" /\ cs' # cs
               /\ OnlyOldRowsRemoved(h, DEFAULT_DAYS)
            \/ \E a \in MaxGameDaysArgs :
                 /\ purgeUnfinishedGames(a, FALSE)
                 /\ OnlyOldRowsRemoved(h, PurgeDays(DefaultArg(a)))]_vars

C19_Witness ==
  /\ now = 0
  /\ cs.pc = "purge"
  /\ cs.game_id = "g1"
  /\ SaveIdsOf(games, "g1") = {0}
  /\ AllFinished(games, "g1")
  /\ SaveIdsOf(games, "g2") = {0, 1}
  /\ \A r \in RowsOf(games, "g2") : r.status = "running"

\* C20: no step changes the status of an existing row from finished to
\* running; a running row becomes finished only by the UPDATE of a cleanSaves
\* of its game; a save onto an existing row leaves its status, so the answer
\* of getGames is the same before and after it.
C20_StatusIsMonotone ==
  [][/\ \A r \in games, n \in games' :
          (r.game_id = n.game_id /\ r.save_id = n.save_id /\ r.status = "finished")
            => n.status = "finished"
     /\ \A g \in GameIds :
          RowMarked(g) => cs.pc = "mark" /\ cs.game_id = g /\ cs'.pc = "purge"
     /\ \A q \in BagToSet(saveQ) :
          (/\ saveGameDone(q, FALSE)
           /\ \E r \in games : r.game_id = q.id /\ r.save_id = q.lastSaveId)
            => getGames' = getGames]_vars

C20_Witness ==
  /\ now = 0
  /\ cs.pc = "done"
  /\ saveQ = EmptyBag
  /\ lastSaveId["g1"] = 2
  /\ getGames = {}
  /\ \E r \in games : /\ games = {r} /\ r.save_id = 0 /\ r.game = "b" /\ r.players = 2
                      /\ r.status = "finished"

====
